---- MODULE Spec2Model ----
(***************************************************************************)
(* Copy-trading core of Sinfo_System: the Master Node (nodes/master.py),   *)
(* the Slave Node (nodes/slave.py), the ZeroMQ bus (messaging/zmq_bus.py), *)
(* the trades collection (db/models.py) and the symbol translator          *)
(* (utils/symbol_translator.py).                                           *)
(***************************************************************************)
EXTENDS Integers, Sequences, FiniteSets, TLC

(***************************************************************************)
(* Bounds of the model.                                                    *)
(***************************************************************************)
\* master tickets are 1..MaxTicket, handed out in increasing order
MaxTicket == 2
\* the slave broker accepts at most this many orders (its tickets are 1..MaxSlaveTicket)
MaxSlaveTicket == 2
\* number of position queries of the master that may fail in one run
MaxQueryFail == 1
\* messages a subscriber's receive queue holds before the bus drops (RCVHWM, scaled down)
MaxQueue == 3
\* messages the publisher sends in a run of the bus on its own
MaxPublish == 2
\* the hours the clock of the tilt protection runs through
MaxClock == 9
\* the losses in a row recorded at most
MaxLosses == 4

(***************************************************************************)
(* Binary64 arithmetic.  Python floats are IEEE-754 doubles; check_slippage *)
(* subtracts and divides them.  TLC integers have 32 bits, so a natural     *)
(* number is a little-endian sequence of 15-bit limbs without leading zero  *)
(* limbs (<<>> is 0) and a double is a record [m, e] of value m * 2^e with  *)
(* m of at most 53 bits.  Prices are far from the subnormal and overflow    *)
(* ranges, which are not modelled.                                          *)
(***************************************************************************)
MantBits == 53
LimbBits == 15
LimbBase == 2^LimbBits

Max(x, y) == IF x >= y THEN x ELSE y
Min(x, y) == IF x <= y THEN x ELSE y

RECURSIVE BNorm(_)
BNorm(a) == IF a = <<>> THEN <<>>
            ELSE IF a[Len(a)] # 0 THEN a
            ELSE BNorm(SubSeq(a, 1, Len(a) - 1))

RECURSIVE BFromNat(_)
BFromNat(n) == IF n = 0 THEN <<>>
               ELSE <<n % LimbBase>> \o BFromNat(n \div LimbBase)

BLimb(a, i) == IF i >= 1 /\ i <= Len(a) THEN a[i] ELSE 0

\* number of bits of a limb value, and of a natural
LimbLen(x) == IF x = 0 THEN 0
              ELSE CHOOSE k \in 1..LimbBits : x \div (2^k) = 0 /\ x \div (2^(k - 1)) # 0

BLen(a) == IF a = <<>> THEN 0
           ELSE LimbBits * (Len(a) - 1) + LimbLen(a[Len(a)])

\* bit i of a, the lowest bit being bit 1
BBit(a, i) == (BLimb(a, (i - 1) \div LimbBits + 1) \div (2^((i - 1) % LimbBits))) % 2

\* -1, 0 or 1 as a < b, a = b, a > b
RECURSIVE BCmpFrom(_, _, _)
BCmpFrom(a, b, i) == IF i = 0 THEN 0
                     ELSE IF a[i] > b[i] THEN 1
                     ELSE IF a[i] < b[i] THEN -1
                     ELSE BCmpFrom(a, b, i - 1)

BCmp(a, b) == IF Len(a) > Len(b) THEN 1
              ELSE IF Len(a) < Len(b) THEN -1
              ELSE BCmpFrom(a, b, Len(a))

RECURSIVE BAddFrom(_, _, _, _)
BAddFrom(a, b, i, carry) ==
    IF i > Len(a) /\ i > Len(b)
    THEN (IF carry = 1 THEN <<1>> ELSE <<>>)
    ELSE LET s == BLimb(a, i) + BLimb(b, i) + carry
         IN  <<s % LimbBase>> \o BAddFrom(a, b, i + 1, s \div LimbBase)

BAdd(a, b) == BAddFrom(a, b, 1, 0)

\* a - b for a >= b
RECURSIVE BSubFrom(_, _, _, _)
BSubFrom(a, b, i, borrow) ==
    IF i > Len(a) THEN <<>>
    ELSE LET d == BLimb(a, i) - BLimb(b, i) - borrow
         IN  <<d % LimbBase>> \o BSubFrom(a, b, i + 1, IF d < 0 THEN 1 ELSE 0)

BSub(a, b) == BNorm(BSubFrom(a, b, 1, 0))

\* a * 2^s for s < LimbBits
RECURSIVE BShlBits(_, _, _, _)
BShlBits(a, s, i, carry) ==
    IF i > Len(a) THEN (IF carry = 0 THEN <<>> ELSE <<carry>>)
    ELSE LET v == a[i] * (2^s) + carry
         IN  <<v % LimbBase>> \o BShlBits(a, s, i + 1, v \div LimbBase)

BShl(a, k) == IF a = <<>> THEN <<>>
              ELSE [i \in 1..(k \div LimbBits) |-> 0] \o BShlBits(a, k % LimbBits, 1, 0)

\* a \div 2^k
BShr(a, k) ==
    LET w == k \div LimbBits
        s == k % LimbBits
        n == Len(a) - w
    IN  IF n <= 0 THEN <<>>
        ELSE BNorm([i \in 1..n |->
                 (a[i + w] \div (2^s)) + (BLimb(a, i + w + 1) % (2^s)) * (2^(LimbBits - s))])

\* one step of schoolbook long division: bring down bit i of a
BDivStep(a, b, st, i) ==
    LET r2 == BAdd(BShl(st.r, 1), IF BBit(a, i) = 1 THEN <<1>> ELSE <<>>)
        q2 == BShl(st.q, 1)
    IN  IF BCmp(r2, b) >= 0
        THEN [q |-> BAdd(q2, <<1>>), r |-> BSub(r2, b)]
        ELSE [q |-> q2, r |-> r2]

\* the steps for bits hi down to lo, halving the range to keep the evaluation shallow
RECURSIVE BDivRange(_, _, _, _, _)
BDivRange(a, b, st, hi, lo) ==
    IF st.q = st.q /\ hi < lo THEN st
    ELSE IF hi = lo THEN BDivStep(a, b, st, hi)
    ELSE LET mid == (hi + lo + 1) \div 2
         IN  BDivRange(a, b, BDivRange(a, b, st, hi, mid), mid - 1, lo)

\* [q, r] with a = q*b + r and r < b
BDivMod(a, b) == BDivRange(a, b, [q |-> <<>>, r |-> <<>>], BLen(a), 1)

DZero == [m |-> <<>>, e |-> 0]

\* round m * 2^e (plus a nonzero tail when sticky) to 53 bits, ties to even
RoundDouble(m, e, sticky) ==
    IF m = <<>> THEN DZero
    ELSE IF BLen(m) <= MantBits THEN [m |-> m, e |-> e]
    ELSE LET k     == BLen(m) - MantBits
             top   == BShr(m, k)
             guard == BBit(m, k)
             rest  == sticky \/ BShl(BShr(m, k - 1), k - 1) # m
             up    == guard = 1 /\ (rest \/ BBit(top, 1) = 1)
             top2  == IF up THEN BAdd(top, <<1>>) ELSE top
         IN  IF BLen(top2) > MantBits
             THEN [m |-> BShr(top2, 1), e |-> e + k + 1]
             ELSE [m |-> top2, e |-> e + k]

DFromNat(n) == [m |-> BFromNat(n), e |-> 0]

\* abs(a - b) of two non-negative doubles
DAbsDiff(a, b) ==
    LET e  == Min(a.e, b.e)
        ma == BShl(a.m, a.e - e)
        mb == BShl(b.m, b.e - e)
    IN  IF BCmp(ma, mb) >= 0
        THEN RoundDouble(BSub(ma, mb), e, FALSE)
        ELSE RoundDouble(BSub(mb, ma), e, FALSE)

\* a / b, correctly rounded (b > 0)
DDiv(a, b) ==
    IF a.m = <<>> THEN DZero
    ELSE LET k  == Max(0, MantBits + 3 + BLen(b.m) - BLen(a.m))
             qr == BDivMod(BShl(a.m, k), b.m)
         IN  RoundDouble(qr.q, a.e - b.e - k, qr.r # <<>>)

\* d > n for a double d and a natural n (Python compares float with int exactly)
DGtNat(d, n) ==
    IF d.e >= 0
    THEN BCmp(BShl(d.m, d.e), BFromNat(n)) = 1
    ELSE BCmp(d.m, BShl(BFromNat(n), 0 - d.e)) = 1

(***************************************************************************)
(* Values.  A price is a whole number of 1e-5 units (the decimal the broker *)
(* quotes, 110000 for 1.10000); Python holds it as the nearest double.      *)
(***************************************************************************)
PriceScale == 100000
\* symbol_info.point of a five-digit symbol, in price units (0.00001)
PointUnits == 1

MasterTickets == 1..MaxTicket
\* open price of the master's positions: 1.10000
MasterPrice   == 110000
\* live quotes of the slave broker: at the signal price, at the tolerance of the
\* running slave and one point beyond it, on either side
Deviations    == {0, 50, 51}
LivePrices    == {MasterPrice + d : d \in Deviations} \cup {MasterPrice - d : d \in Deviations}

AllSlaves == {"Apex_Slave_01", "FundedEngineer_Slave_01"}

\* the sample slave accounts of the registry
Accounts ==
    [s \in AllSlaves |->
        IF s = "Apex_Slave_01"
        THEN [symbol_map |-> [x \in {"XAUUSD", "US30"} |->
                                 IF x = "XAUUSD" THEN "GOLD" ELSE "DJ30"],
              suffix |-> ".c",
              slippage_tolerance |-> 50]
        ELSE [symbol_map |-> <<>>, suffix |-> ".pro", slippage_tolerance |-> 30]]

NoTicket == 0

DoubleOfPrice(p) == DDiv(DFromNat(p), DFromNat(PriceScale))

(***************************************************************************)
(* utils/symbol_translator.py                                              *)
(***************************************************************************)
TranslateSuffixed(symbol_map, suffix, master_symbol) ==
    IF master_symbol \in DOMAIN symbol_map
    THEN symbol_map[master_symbol] \o suffix
    ELSE master_symbol \o suffix

translate(symbol_map, suffix, master_symbol) ==
    IF master_symbol \in DOMAIN symbol_map
    THEN symbol_map[master_symbol]
    ELSE master_symbol \o suffix

(***************************************************************************)
(* db/models.py, TradeModel: the trades collection is the sequence of its  *)
(* documents in insertion order; find_one and update_one take the first    *)
(* document that matches the filter.                                       *)
(***************************************************************************)
Matching(coll, master_ticket, slave_name, status) ==
    {i \in 1..Len(coll) : /\ coll[i].master_ticket = master_ticket
                          /\ coll[i].slave_name = slave_name
                          /\ coll[i].status = status}

SetMin(S) == CHOOSE x \in S : \A y \in S : x <= y

create_mapping(coll, master_ticket, slave_ticket, slave_name, symbol, direction) ==
    Append(coll, [master_ticket |-> master_ticket, slave_ticket |-> slave_ticket,
                  slave_name |-> slave_name, symbol |-> symbol,
                  direction |-> direction, status |-> "OPEN"])

RecordsWith(coll, master_ticket, slave_name) ==
    {i \in 1..Len(coll) : /\ coll[i].master_ticket = master_ticket
                          /\ coll[i].slave_name = slave_name}

\* a plausible slip: the filter forgets master_ticket
GetSlaveTicketAnyMaster(coll, master_ticket, slave_name) ==
    LET found == {i \in 1..Len(coll) : coll[i].slave_name = slave_name
                                       /\ coll[i].status = "OPEN"}
    IN  IF found = {} THEN NoTicket ELSE coll[SetMin(found)].slave_ticket

\* a plausible slip: the filter forgets the status
GetSlaveTicketAnyStatus(coll, master_ticket, slave_name) ==
    LET found == RecordsWith(coll, master_ticket, slave_name)
    IN  IF found = {} THEN NoTicket ELSE coll[SetMin(found)].slave_ticket

get_slave_ticket(coll, master_ticket, slave_name) ==
    LET found == Matching(coll, master_ticket, slave_name, "OPEN")
    IN  IF found = {} THEN NoTicket ELSE coll[SetMin(found)].slave_ticket

\* a plausible slip: the filter of the update leaves slave_name out
CloseTradeAnySlave(coll, master_ticket, slave_name) ==
    LET found == {i \in 1..Len(coll) : /\ coll[i].master_ticket = master_ticket
                                       /\ coll[i].status = "OPEN"}
    IN  IF found = {} THEN coll
        ELSE [coll EXCEPT ![SetMin(found)].status = "CLOSED"]

\* a plausible slip: update_many instead of update_one
CloseTradeMany(coll, master_ticket, slave_name) ==
    [i \in 1..Len(coll) |->
        IF i \in Matching(coll, master_ticket, slave_name, "OPEN")
        THEN [coll[i] EXCEPT !.status = "CLOSED"] ELSE coll[i]]

\* a plausible slip: the update writes the status it filters on
CloseTradeKeepsOpen(coll, master_ticket, slave_name) == coll

close_trade(coll, master_ticket, slave_name) ==
    LET found == Matching(coll, master_ticket, slave_name, "OPEN")
    IN  IF found = {} THEN coll
        ELSE [coll EXCEPT ![SetMin(found)].status = "CLOSED"]

(***************************************************************************)
(* State.                                                                  *)
(***************************************************************************)
VARIABLES
    position_of,     \* the position the master broker holds under each ticket
    master_positions,\* tickets open on the master account (mt5.positions_get)
    next_master,     \* next ticket the master broker hands out
    master_state,    \* "start", "running" or "exited"
    ticket_cache,    \* MasterNode._ticket_cache: ticket -> position dict
    query_fails,     \* failed position queries so far
    poll,            \* the last poll cycle: what it saw and what it published
    master_log,      \* the tickets open on the account and the tickets cached when the
                     \* master started, the tickets an Open was published for, and
                     \* per ticket the last signal published
    subscribed,      \* slaves whose SUB socket is connected to the publisher
    queue,           \* per slave, the messages its SUB socket has received
    slave_state,     \* per slave: "off", "running" or "crashed"
    account_config,  \* per slave, its document of the accounts collection
    positions,       \* per slave, the positions open on its broker
    next_ticket,     \* per slave, the next ticket its broker hands out
    trades,          \* the trades collection
    last,            \* the last execute_open / execute_close call and its outcome
    translation,     \* a translator, the last symbol given to it and its answer
    published,       \* every message the PUB socket has sent, in order, with the slaves
                     \* connected and the slaves whose terminal was down at that moment
    received,        \* per slave, the messages recv_string has returned (positions in
                     \* published), in order
    terminal,        \* per slave, "up" or "down": what mt5.terminal_info() answers
    retried,         \* per slave, an initialize_mt5 of the current outage has failed
    node_end,        \* per node process: why it ended, its exit code, and whether its
                     \* stop() ran (Bus socket closed, mt5.shutdown() called)
    db_up,           \* the store is reachable
    registry,        \* the accounts collection
    launcher_pc,     \* where the Launcher is in start()
    accounts,        \* Launcher: the list load_accounts returned
    cursor,          \* Launcher: accounts of the current spawn loop already spawned
    processes,       \* Launcher.processes: account name -> process
    next_pid,        \* the next process id the OS hands out
    launch_log,      \* the spawns and the sleep of start(), in order
    exit_code,       \* exit code of the Launcher process, NoExit while it runs
    children,        \* per process id the Launcher spawned: "running", "exited"
                     \* (on its own), "terminated" or "killed"
    tilt,            \* TiltProtection: consecutive_losses and paused_until
    clock,           \* datetime.now(), in hours
    tilt_last,       \* the last call of TiltProtection and what it returned
    tilt_ledger      \* the losses recorded since the last win or the end of the last
                     \* pause, and the hour of the loss that began or renewed the pause

master_vars == <<master_positions, next_master, master_state, ticket_cache,
                 query_fails, poll, master_log>>
bus_vars    == <<subscribed, queue, published, received>>
slave_vars  == <<slave_state, account_config, positions, next_ticket, trades, last>>
conn_vars   == <<terminal, retried, node_end>>
launcher_vars == <<db_up, registry, launcher_pc, accounts, cursor, processes, next_pid,
                   launch_log, exit_code, children>>
tilt_vars   == <<tilt, clock, tilt_last, tilt_ledger>>
vars        == <<position_of, master_vars, bus_vars, slave_vars, translation, conn_vars,
                 launcher_vars, tilt_vars>>

NoTick == [none |-> TRUE]
NoInfo == [none |-> TRUE]
\* quotes with a spread of at most one point
Ticks  == {t \in [ask : LivePrices, bid : LivePrices] : t.bid <= t.ask /\ t.ask - t.bid <= 1}

NoCall == [slave |-> "", op |-> "none", ticket |-> NoTicket, out |-> "none",
           cur |-> 0, order |-> FALSE, ret |-> NoTicket, seq |-> 0]

\* position dict of get_current_positions (volume, sl, tp and time are carried unchanged)
PositionDict(t) == [ticket |-> t, symbol |-> position_of[t].symbol,
                    type |-> position_of[t].type, volume |-> 10,
                    price |-> MasterPrice, sl |-> 109500, tp |-> 111000]

(***************************************************************************)
(* messaging/zmq_bus.py: the payloads of publish_open and publish_close.   *)
(***************************************************************************)
OpenMessage(p) == [action |-> "OPEN", ticket |-> p.ticket, symbol |-> p.symbol,
                   type |-> p.type, volume |-> p.volume, price |-> p.price,
                   sl |-> p.sl, tp |-> p.tp]

CloseMessage(ticket, symbol) == [action |-> "CLOSE", ticket |-> ticket, symbol |-> symbol]

(***************************************************************************)
(* The values json.loads returns, and the text json.dumps writes.  A wire  *)
(* message is the list message.split(' ', 1) makes of it: the topic alone   *)
(* when the text has no separator, else the topic and the payload text.    *)
(***************************************************************************)
None      == [type |-> "NoneType", value |-> 0]
PyInt(n)  == [type |-> "int", value |-> n]
PyDict(d) == [type |-> "dict", value |-> d]

\* the truth value of "if signal:" (line 318 of slave.py)
Truthy(v) ==
    IF v.type = "NoneType" THEN FALSE
    ELSE IF v.type = "int" THEN v.value # 0
    ELSE DOMAIN v.value # {}

InvalidJson == [json |-> "invalid", value |-> None]

JsonText(v) == [json |-> "text", value |-> v]

json_dumps(message) == JsonText(PyDict(message))

(***************************************************************************)
(* nodes/slave.py                                                          *)
(***************************************************************************)
\* abs(current_price - master_price) / symbol_info.point, in doubles
slippage_points(current_price, master_price, point) ==
    DDiv(DAbsDiff(DoubleOfPrice(current_price), DoubleOfPrice(master_price)),
         DoubleOfPrice(point))

\* the quotients for the quotes of the model, computed once
SlippageTable == [c \in LivePrices |-> slippage_points(c, MasterPrice, PointUnits)]

CurrentPrice(tick, order_type) == IF order_type = 0 THEN tick.ask ELSE tick.bid

check_slippage(tick, info, master_price, order_type, tolerance) ==
    IF tick = NoTick THEN FALSE
    ELSE IF info = NoInfo THEN FALSE
    ELSE LET current_price == CurrentPrice(tick, order_type)
             pts == IF master_price = MasterPrice /\ info.point = PointUnits
                    THEN SlippageTable[current_price]
                    ELSE slippage_points(current_price, master_price, info.point)
         IN  ~ DGtNat(pts, tolerance)

\* a plausible slip: the retcode is not compared with TRADE_RETCODE_DONE
OrderSucceededAnyRetcode(result) == result # "none"

\* lines 171-180 and 259-268: result is None, or its retcode is not DONE
OrderSucceeded(result) == result = "done"

OrderResults == {"none", "rejected", "done"}

Direction(order_type) == IF order_type = 0 THEN "BUY" ELSE "SELL"

\* the outcomes that are an exception leaving run(): no quote where the code reads
\* tick.ask or tick.bid (AttributeError), and a pymongo error of a store call
Raised == {"crash", "store_failed", "bad_signal"}

\* a signal that is not a dict (signal.get, line 287) or lacks a key the handler
\* reads (lines 128-134, 163 and 210) raises out of run()
SignalRaises(s, op) ==
    /\ last' = [slave |-> s, op |-> op, ticket |-> NoTicket, out |-> "bad_signal",
                cur |-> 0, order |-> FALSE, ret |-> NoTicket, seq |-> 1 - last.seq]
    /\ slave_state' = [slave_state EXCEPT ![s] = "crashed"]
    /\ UNCHANGED <<positions, next_ticket, trades>>

OpenKeys  == {"ticket", "symbol", "type", "volume", "price", "sl", "tp"}
CloseKeys == {"ticket"}

\* the call returns (or raises) with this outcome and leaves the rest alone
OpenEnds(s, signal, out, cur) ==
    /\ last' = [slave |-> s, op |-> "open", ticket |-> signal.ticket, out |-> out,
                cur |-> cur, order |-> FALSE, ret |-> NoTicket, seq |-> 1 - last.seq]
    /\ slave_state' = IF out \in Raised THEN [slave_state EXCEPT ![s] = "crashed"]
                      ELSE slave_state
    /\ UNCHANGED <<positions, next_ticket, trades>>

execute_open(s, signal) ==
    IF ~ (OpenKeys \subseteq DOMAIN signal) THEN SignalRaises(s, "open") ELSE
    LET slave_symbol == translate(account_config[s].symbol_map,
                                  account_config[s].suffix, signal.symbol)
        tolerance    == account_config[s].slippage_tolerance
    IN
    \* mt5.symbol_select fails
    \/ OpenEnds(s, signal, "select_failed", 0)
    \* check_slippage: no tick, no symbol info, or the slippage is exceeded
    \/ OpenEnds(s, signal, "no_tick", 0)
    \/ OpenEnds(s, signal, "no_info", 0)
    \/ \E tick \in Ticks :
          /\ ~ check_slippage(tick, [point |-> PointUnits], signal.price,
                              signal.type, tolerance)
          /\ OpenEnds(s, signal, "slippage", CurrentPrice(tick, signal.type))
    \/ \E tick \in Ticks :
          /\ check_slippage(tick, [point |-> PointUnits], signal.price,
                            signal.type, tolerance)
          /\ LET cur == CurrentPrice(tick, signal.type)
             IN
             \* line 146-147: the second symbol_info_tick returns None
             \/ OpenEnds(s, signal, "crash", cur)
             \/ \E result \in OrderResults, store_ok \in BOOLEAN :
                   \* the broker opens the position exactly when it answers DONE
                   /\ result = "done" => next_ticket[s] <= MaxSlaveTicket
                   \* lines 189-195: the store is called after an accepted order only
                   /\ ~ store_ok => OrderSucceeded(result)
                   /\ positions' =
                        IF result = "done"
                        THEN [positions EXCEPT ![s] = @ \cup
                                {[ticket |-> next_ticket[s], symbol |-> slave_symbol,
                                  type |-> signal.type, comment |-> signal.ticket]}]
                        ELSE positions
                   /\ next_ticket' = IF result = "done"
                                     THEN [next_ticket EXCEPT ![s] = @ + 1]
                                     ELSE next_ticket
                   /\ trades' =
                        IF OrderSucceeded(result) /\ store_ok
                        THEN create_mapping(trades, signal.ticket, next_ticket[s], s,
                                            slave_symbol, Direction(signal.type))
                        ELSE trades
                   /\ last' = [slave |-> s, op |-> "open", ticket |-> signal.ticket,
                               out |-> IF ~ store_ok THEN "store_failed"
                                       ELSE IF result = "done" THEN "done"
                                       ELSE IF result = "none" THEN "no_result"
                                       ELSE "rejected",
                               cur |-> cur, order |-> TRUE,
                               ret |-> IF OrderSucceeded(result) /\ store_ok
                                       THEN next_ticket[s]
                                       ELSE NoTicket,
                               seq |-> 1 - last.seq]
                   /\ slave_state' = IF store_ok THEN slave_state
                                     ELSE [slave_state EXCEPT ![s] = "crashed"]

CloseEnds(s, signal, out) ==
    /\ last' = [slave |-> s, op |-> "close", ticket |-> signal.ticket, out |-> out,
                cur |-> 0, order |-> FALSE, ret |-> NoTicket, seq |-> 1 - last.seq]
    /\ slave_state' = IF out \in Raised THEN [slave_state EXCEPT ![s] = "crashed"]
                      ELSE slave_state
    /\ UNCHANGED <<positions, next_ticket>>

execute_close(s, signal) ==
    IF ~ (CloseKeys \subseteq DOMAIN signal) THEN SignalRaises(s, "close") ELSE
    LET master_ticket == signal.ticket
        slave_ticket  == get_slave_ticket(trades, master_ticket, s)
        found         == {p \in positions[s] : p.ticket = slave_ticket}
    IN
    \* the store fails in get_slave_ticket, or in close_trade before any order
    \/ CloseEnds(s, signal, "store_failed") /\ UNCHANGED trades
    \* no mapping found: warning, return False
    \/ /\ slave_ticket = NoTicket
       /\ CloseEnds(s, signal, "no_mapping")
       /\ UNCHANGED trades
    \* positions_get returns an empty tuple, or None when the query fails
    \/ /\ slave_ticket # NoTicket
       /\ found = {}
       /\ CloseEnds(s, signal, "gone")
       /\ trades' = close_trade(trades, master_ticket, s)
    \/ /\ slave_ticket # NoTicket
       /\ found # {}
       /\ CloseEnds(s, signal, "query_failed")
       /\ trades' = close_trade(trades, master_ticket, s)
    \/ /\ slave_ticket # NoTicket
       /\ found # {}
       /\ \* lines 234-239: symbol_info_tick returns None
          \/ CloseEnds(s, signal, "crash") /\ UNCHANGED trades
          \/ \E result \in OrderResults, store_ok \in BOOLEAN :
                \* lines 271-272: the store is called after an accepted order only
                /\ ~ store_ok => OrderSucceeded(result)
                \* the broker closes the position exactly when it answers DONE
                /\ positions' = IF result = "done"
                                THEN [positions EXCEPT ![s] = @ \ found]
                                ELSE positions
                /\ trades' = IF OrderSucceeded(result) /\ store_ok
                             THEN close_trade(trades, master_ticket, s)
                             ELSE trades
                /\ last' = [slave |-> s, op |-> "close", ticket |-> master_ticket,
                            out |-> IF ~ store_ok THEN "store_failed"
                                    ELSE IF result = "done" THEN "done"
                                    ELSE IF result = "none" THEN "no_result"
                                    ELSE "rejected",
                            cur |-> 0, order |-> TRUE, ret |-> NoTicket,
                            seq |-> 1 - last.seq]
                /\ slave_state' = IF store_ok THEN slave_state
                                  ELSE [slave_state EXCEPT ![s] = "crashed"]
                /\ UNCHANGED next_ticket

process_signal(s, signal) ==
    IF signal.type # "dict" THEN SignalRaises(s, "none")
    ELSE LET action == IF "action" \in DOMAIN signal.value THEN signal.value.action
                       ELSE "None"
         IN  IF action = "OPEN" THEN execute_open(s, signal.value)
             ELSE IF action = "CLOSE" THEN execute_close(s, signal.value)
             ELSE UNCHANGED slave_vars

(***************************************************************************)
(* The slave's broker: a mirrored position is closed on the broker's side  *)
(* (stop loss, take profit, manual close).                                 *)
(***************************************************************************)
SlavePositionGone(s) ==
    /\ slave_state[s] # "off"
    /\ \E p \in positions[s] : positions' = [positions EXCEPT ![s] = @ \ {p}]
    /\ UNCHANGED <<position_of, master_vars, bus_vars, slave_state, account_config,
                   next_ticket, trades, last, translation, conn_vars,
                   launcher_vars, tilt_vars>>

(***************************************************************************)
(* A slave replaying any sequence of Open and Close signals.               *)
(***************************************************************************)
\* what a ticket of the master may be: a long in a suffixed symbol or a short in a
\* mapped one
PositionData == {[symbol |-> "EURUSD", type |-> 0], [symbol |-> "XAUUSD", type |-> 1]}

\* the master trades EURUSD long and XAUUSD short
SamplePositions ==
    [t \in MasterTickets |-> IF t % 2 = 1 THEN [symbol |-> "EURUSD", type |-> 0]
                             ELSE [symbol |-> "XAUUSD", type |-> 1]]

ReplaySlave == "Apex_Slave_01"

EmptyDict == [t \in {} |-> 0]

NoLog == [startup |-> {}, loaded |-> {}, opened |-> {},
          last |-> [t \in MasterTickets |-> "none"]]

InitIdleMaster ==
    /\ master_log = NoLog
    /\ master_positions = {}
    /\ next_master = 1
    /\ master_state = "start"
    /\ ticket_cache = EmptyDict
    /\ query_fails = 0
    /\ poll = [failed |-> FALSE, cached |-> {}, polled |-> {}, out |-> <<>>]

InitSlaves(running) ==
    /\ slave_state = [s \in AllSlaves |-> IF s \in running THEN "running" ELSE "off"]
    /\ account_config = Accounts
    /\ positions = [s \in AllSlaves |-> {}]
    /\ next_ticket = [s \in AllSlaves |-> 1]
    /\ trades = <<>>
    /\ last = NoCall

InitBusIdle ==
    /\ subscribed = {}
    /\ queue = [s \in AllSlaves |-> <<>>]
    /\ published = <<>>
    /\ received = [s \in AllSlaves |-> <<>>]

NoExit == -1

MasterName == "FTMO_Master"

Nodes == {MasterName} \cup AllSlaves

NoEnd == [why |-> "none", code |-> NoExit, released |-> FALSE]

Ended(why, code, released) == [why |-> why, code |-> code, released |-> released]

\* a pause that is not set (paused_until is None)
NoPause == -1

NoTiltCall == [op |-> "none", is_win |-> FALSE, result |-> TRUE, at |-> 0,
               until |-> NoPause, seq |-> 0]

\* bot/risk_manager.py, TiltProtection.__init__
InitTilt ==
    /\ tilt = [consecutive_losses |-> 0, paused_until |-> NoPause]
    /\ clock = 0
    /\ tilt_last = NoTiltCall
    /\ tilt_ledger = [losses |-> 0, paused_at |-> NoPause]

InitConn ==
    /\ terminal = [s \in AllSlaves |-> "up"]
    /\ retried = [s \in AllSlaves |-> FALSE]
    /\ node_end = [n \in Nodes |-> NoEnd]

\* no Launcher: the nodes were started by hand
InitNoLauncher ==
    /\ db_up = TRUE
    /\ registry = {}
    /\ launcher_pc = "off"
    /\ accounts = <<>>
    /\ cursor = 0
    /\ processes = EmptyDict
    /\ next_pid = 1
    /\ launch_log = <<>>
    /\ exit_code = NoExit
    /\ children = EmptyDict

NoTranslation == [symbol_map |-> <<>>, suffix |-> "", master_symbol |-> "",
                  result |-> ""]

InitReplay ==
    /\ translation = NoTranslation
    /\ position_of = SamplePositions
    /\ InitIdleMaster
    /\ InitBusIdle
    /\ InitConn
    /\ InitTilt
    /\ InitNoLauncher
    /\ InitSlaves({ReplaySlave})

ReplayOpen(s) ==
    /\ slave_state[s] = "running"
    /\ \E t \in MasterTickets : process_signal(s, PyDict(OpenMessage(PositionDict(t))))
    /\ UNCHANGED <<position_of, master_vars, bus_vars, account_config, translation, conn_vars,
                   launcher_vars, tilt_vars>>

ReplayClose(s) ==
    /\ slave_state[s] = "running"
    /\ \E t \in MasterTickets :
          process_signal(s, PyDict(CloseMessage(t, position_of[t].symbol)))
    /\ UNCHANGED <<position_of, master_vars, bus_vars, account_config, translation, conn_vars,
                   launcher_vars, tilt_vars>>

NextReplay ==
    \/ \E s \in AllSlaves : ReplayOpen(s)
    \/ \E s \in AllSlaves : ReplayClose(s)
    \/ \E s \in AllSlaves : SlavePositionGone(s)

SpecReplay == InitReplay /\ [][NextReplay]_vars

(***************************************************************************)
(* Properties of the slave (checked under SpecReplay).                     *)
(***************************************************************************)
\* the step is one execute_open or execute_close call
Called == last'.seq # last.seq

RecordsOf(coll, master_ticket, slave_name) ==
    {i \in 1..Len(coll) : /\ coll[i].master_ticket = master_ticket
                          /\ coll[i].slave_name = slave_name}

\* C1: the trades collection never holds two OPEN records for the same
\* (master_ticket, slave_name)
CorrelationUniqueness ==
    \A i, j \in 1..Len(trades) :
        (/\ i # j
         /\ trades[i].status = "OPEN" /\ trades[j].status = "OPEN"
         /\ trades[i].slave_name = trades[j].slave_name)
        => trades[i].master_ticket # trades[j].master_ticket

LastDeviation(l) ==
    (IF l.cur >= MasterPrice THEN l.cur - MasterPrice ELSE MasterPrice - l.cur)
        \div PointUnits

\* C5: execute_open accepts a deviation of exactly the tolerance and rejects a
\* deviation of one point more, without an order and without a record
SlippageBoundary ==
    [][(Called /\ last'.op = "open" /\ last'.cur # 0)
       => LET T == account_config[last'.slave].slippage_tolerance
          IN  /\ LastDeviation(last') = T => last'.out # "slippage"
              /\ LastDeviation(last') = T + 1
                    => (/\ last'.out = "slippage"
                        /\ ~ last'.order
                        /\ last'.ret = NoTicket
                        /\ trades' = trades)]_vars

\* C7: a call that ends at a failed symbol selection, a failed slippage check or a
\* refused order returns no ticket and leaves the collection alone; the collection
\* changes only by one new OPEN record whose slave ticket is a position the broker
\* has just opened
RecordOnlyAfterAcceptedOpen ==
    [][(Called /\ last'.op = "open")
       => /\ last'.out \in {"select_failed", "no_tick", "no_info", "slippage",
                            "no_result", "rejected"}
                => (last'.ret = NoTicket /\ trades' = trades)
          /\ trades' # trades
                => (/\ last'.out = "done"
                    /\ Len(trades') = Len(trades) + 1
                    /\ SubSeq(trades', 1, Len(trades)) = trades
                    /\ trades'[Len(trades')].status = "OPEN"
                    /\ trades'[Len(trades')].master_ticket = last'.ticket
                    /\ trades'[Len(trades')].slave_ticket = last'.ret
                    /\ \E p \in positions'[last'.slave] \ positions[last'.slave] :
                          p.ticket = last'.ret)]_vars

\* the broker has refused an open order while the slave already holds a record
OpenRefused ==
    /\ last.op = "open" /\ last.out = "rejected" /\ last.order
    /\ trades # <<>>

\* C8: execute_close for a ticket without an OPEN record of this slave (the store
\* answering the lookup) submits no order, changes neither the collection nor the
\* broker's positions, and raises no error
CloseWithoutMappingIsNoOp ==
    [][(/\ Called
        /\ last'.op = "close" /\ last'.out # "store_failed"
        /\ Matching(trades, last'.ticket, last'.slave, "OPEN") = {})
       => (/\ ~ last'.order
           /\ last'.out = "no_mapping"
           /\ trades' = trades
           /\ positions' = positions
           /\ slave_state' = slave_state)]_vars

\* a close has found no mapping while the slave holds an OPEN record (of another
\* ticket) and a CLOSED one
CloseFoundNoMapping ==
    /\ last.op = "close" /\ last.out = "no_mapping"
    /\ \E i \in 1..Len(trades) : trades[i].status = "OPEN"
    /\ \E i \in 1..Len(trades) : trades[i].status = "CLOSED"

\* C9: when the OPEN record's position is no longer on the slave's broker,
\* execute_close (the store answering) marks that record CLOSED, changes no other
\* record and submits no order
GoneClosesWithoutOrder ==
    [][(/\ Called
        /\ last'.op = "close" /\ last'.out # "store_failed"
        /\ Matching(trades, last'.ticket, last'.slave, "OPEN") # {}
        /\ LET i == SetMin(Matching(trades, last'.ticket, last'.slave, "OPEN"))
           IN  \A p \in positions[last'.slave] : p.ticket # trades[i].slave_ticket)
       => LET i == SetMin(Matching(trades, last'.ticket, last'.slave, "OPEN"))
          IN  /\ ~ last'.order
              /\ trades' = [trades EXCEPT ![i].status = "CLOSED"]
              /\ positions' = positions]_vars

\* a close has reconciled a record whose position was gone
Reconciled ==
    /\ last.op = "close" /\ last.out = "gone" /\ ~ last.order
    /\ \E i \in Matching(trades, last.ticket, last.slave, "CLOSED") :
          \A p \in positions[last.slave] : p.ticket # trades[i].slave_ticket

\* C11: once a slave holds a CLOSED record for a master ticket, no step creates a new
\* OPEN record for that ticket and slave, and no record goes from CLOSED back to OPEN
CorrelationMovesForward ==
    [][\A t \in MasterTickets, s \in AllSlaves :
          Matching(trades, t, s, "CLOSED") # {}
             => /\ Matching(trades', t, s, "OPEN") \subseteq Matching(trades, t, s, "OPEN")
                /\ Matching(trades, t, s, "CLOSED") \subseteq
                      Matching(trades', t, s, "CLOSED")]_vars

\* C12: a call that fails for want of a quote, for want of a broker result or on a
\* store error leaves the slave running
SignalFailureSurvived ==
    [][(Called /\ last'.out \in {"no_tick", "crash", "no_result", "store_failed"})
       => slave_state'[last'.slave] = "running"]_vars

(***************************************************************************)
(* SymbolTranslator on its own: any symbol map, any suffix, any symbol.    *)
(***************************************************************************)
MasterSymbols == {"EURUSD", "XAUUSD", "US30"}
MappedSymbols == {"GOLD", "DJ30", "EURUSD"}
Suffixes      == {"", ".c", ".pro"}

\* the dicts from some master symbols to slave symbols
SymbolMaps ==
    UNION {[keys -> MappedSymbols] : keys \in SUBSET MasterSymbols}

InitTranslate ==
    /\ \E m \in SymbolMaps, x \in Suffixes :
          translation = [symbol_map |-> m, suffix |-> x, master_symbol |-> "",
                         result |-> ""]
    /\ position_of = [t \in MasterTickets |-> [symbol |-> "EURUSD", type |-> 0]]
    /\ InitIdleMaster
    /\ InitBusIdle
    /\ InitConn
    /\ InitTilt
    /\ InitNoLauncher
    /\ InitSlaves({})

Translate ==
    /\ \E x \in MasterSymbols :
          translation' = [translation EXCEPT
                             !.master_symbol = x,
                             !.result = translate(translation.symbol_map,
                                                  translation.suffix, x)]
    /\ UNCHANGED <<position_of, master_vars, bus_vars, slave_vars, conn_vars,
                   launcher_vars, tilt_vars>>

NextTranslate == Translate

SpecTranslate == InitTranslate /\ [][NextTranslate]_vars

\* C6: translate(X) is the mapped value when the symbol map has an entry for X,
\* whatever the suffix, and X followed by the suffix otherwise
TranslationPrecedence ==
    translation.master_symbol # ""
    => LET X == translation.master_symbol
       IN  /\ X \in DOMAIN translation.symbol_map
                => translation.result = translation.symbol_map[X]
           /\ X \notin DOMAIN translation.symbol_map
                => translation.result = X \o translation.suffix

\* a mapped symbol has been translated by a translator with a non-empty suffix
MappedTranslated ==
    /\ translation.master_symbol \in DOMAIN translation.symbol_map
    /\ translation.suffix # ""
    /\ translation.result = translation.symbol_map[translation.master_symbol]

(***************************************************************************)
(* messaging/zmq_bus.py: a message on the wire is the topic and the JSON   *)
(* payload; the PUB socket hands it to every SUB socket connected at that  *)
(* moment, and a socket whose queue is at its high-water mark drops it.    *)
(***************************************************************************)
\* lines 48-49: the parts of f"{topic} {payload}"
publish(message) == <<"TRADE", json_dumps(message)>>

\* lines 155-167: no separator, or a payload json.loads refuses, gives None
receive(wire) ==
    IF Len(wire) = 2
    THEN IF wire[2].json = "invalid" THEN None ELSE wire[2].value
    ELSE None

\* a plausible slip: the newest message is handed out first
DeliverNewestFirst(q, entries) ==
    LET room == MaxQueue - Len(q)
    IN  IF Len(entries) <= room THEN entries \o q ELSE SubSeq(entries, 1, room) \o q

\* the socket's queue is first in, first out, and drops what exceeds its high-water mark
Deliver(q, entries) ==
    LET room == MaxQueue - Len(q)
    IN  IF Len(entries) <= room THEN q \o entries ELSE q \o SubSeq(entries, 1, room)

\* what the history keeps of each send
Stamp(wires) ==
    [i \in DOMAIN wires |-> [connected |-> subscribed,
                             down |-> {s \in AllSlaves : terminal[s] = "down"}]]

Entries(wires) == [i \in DOMAIN wires |-> [id |-> Len(published) + i, wire |-> wires[i]]]

\* a plausible slip: the socket keeps messages for the slaves that are not connected
BroadcastToAll(wires) ==
    /\ queue' = [s \in AllSlaves |-> Deliver(queue[s], Entries(wires))]
    /\ published' = published \o Stamp(wires)

Broadcast(wires) ==
    /\ queue' = [s \in AllSlaves |->
                    IF s \in subscribed THEN Deliver(queue[s], Entries(wires))
                    ELSE queue[s]]
    /\ published' = published \o Stamp(wires)

\* the SUB socket of a running slave completes its connection to the publisher
BusConnect(s) ==
    /\ slave_state[s] = "running"
    /\ master_state = "running"
    /\ s \notin subscribed
    /\ subscribed' = subscribed \cup {s}
    /\ UNCHANGED <<position_of, master_vars, queue, published, received, slave_vars,
                   translation, conn_vars,
                   launcher_vars, tilt_vars>>

(***************************************************************************)
(* nodes/master.py                                                         *)
(***************************************************************************)
\* mt5.positions_get() answers None when the query fails
get_current_positions(query_ok) ==
    IF ~ query_ok THEN EmptyDict
    ELSE [t \in master_positions |-> PositionDict(t)]

\* a plausible slip: the cached tickets are not subtracted
DetectChangesNoDifference(current, cache) ==
    [opened |-> DOMAIN current, closed |-> DOMAIN cache \ DOMAIN current]

detect_changes(current, cache) ==
    [opened |-> DOMAIN current \ DOMAIN cache,
     closed |-> DOMAIN cache \ DOMAIN current]

\* the orders in which a for loop may walk a set
Orders(S) == {f \in [1..Cardinality(S) -> S] : \A i, j \in DOMAIN f : i # j => f[i] # f[j]}

publish_open_signal(position) == publish(OpenMessage(position))

publish_close_signal(cache, ticket) ==
    publish(CloseMessage(ticket, IF ticket \in DOMAIN cache THEN cache[ticket].symbol
                                 ELSE "UNKNOWN"))

\* a plausible slip: the closed tickets are not deleted from the cache
UpdateCacheKeepsClosed(cache, current, changes) ==
    [t \in DOMAIN cache \cup changes.opened |->
        IF t \in changes.opened THEN current[t] ELSE cache[t]]

\* lines 163-171: self._ticket_cache[ticket] = position for every opened ticket,
\* del self._ticket_cache[ticket] for every closed one
UpdateCache(cache, current, changes) ==
    [t \in (DOMAIN cache \cup changes.opened) \ changes.closed |->
        IF t \in changes.opened THEN current[t] ELSE cache[t]]

\* the log after the Opens and then the Closes of one poll were published
Logged(log, opened, closed) ==
    [log EXCEPT
        !.opened = @ \cup {opened[i] : i \in DOMAIN opened},
        !.last = [t \in MasterTickets |->
                     IF \E i \in DOMAIN closed : closed[i] = t THEN "CLOSE"
                     ELSE IF \E i \in DOMAIN opened : opened[i] = t THEN "OPEN"
                     ELSE @[t]]]

\* the environment: the master account opens and closes positions
MasterOpens ==
    /\ next_master <= MaxTicket
    /\ master_positions' = master_positions \cup {next_master}
    /\ next_master' = next_master + 1
    /\ UNCHANGED <<position_of, master_state, ticket_cache, query_fails, poll,
                   master_log, bus_vars, slave_vars, translation, conn_vars,
                   launcher_vars, tilt_vars>>

MasterCloses ==
    /\ \E t \in master_positions : master_positions' = master_positions \ {t}
    /\ UNCHANGED <<position_of, next_master, master_state, ticket_cache, query_fails,
                   poll, master_log, bus_vars, slave_vars, translation, conn_vars,
                   launcher_vars, tilt_vars>>

\* run() up to the loop: initialize_mt5, publisher.start, initial cache population
MasterStart ==
    /\ master_state = "start"
    /\ \E init_ok, query_ok \in BOOLEAN :
          /\ ~ query_ok => query_fails < MaxQueryFail
          /\ IF ~ init_ok
             THEN \* lines 144-145: return; main() returns and the process ends
                  /\ master_state' = "exited"
                  /\ node_end' = [node_end EXCEPT
                                     ![MasterName] = Ended("init_failed", 0, FALSE)]
                  /\ UNCHANGED <<ticket_cache, query_fails, master_log>>
             ELSE /\ master_state' = "running"
                  /\ ticket_cache' = get_current_positions(query_ok)
                  /\ query_fails' = IF query_ok THEN query_fails ELSE query_fails + 1
                  /\ master_log' = [master_log EXCEPT
                                       !.startup = master_positions,
                                       !.loaded = DOMAIN ticket_cache']
                  /\ UNCHANGED node_end
    /\ UNCHANGED <<position_of, master_positions, next_master, poll, bus_vars,
                   slave_vars, translation, terminal, retried,
                   launcher_vars, tilt_vars>>

\* one iteration of the loop of run()
MasterPoll ==
    /\ master_state = "running"
    /\ \E query_ok \in BOOLEAN :
          /\ ~ query_ok => query_fails < MaxQueryFail
          /\ query_fails' = IF query_ok THEN query_fails ELSE query_fails + 1
          /\ LET current_positions == get_current_positions(query_ok)
                 changes == detect_changes(current_positions, ticket_cache)
             IN  \E opened \in Orders(changes.opened), closed \in Orders(changes.closed) :
                    LET opens  == [i \in DOMAIN opened |->
                                      publish_open_signal(current_positions[opened[i]])]
                        closes == [i \in DOMAIN closed |->
                                      publish_close_signal(ticket_cache, closed[i])]
                    IN  /\ Broadcast(opens \o closes)
                        /\ ticket_cache' = UpdateCache(ticket_cache, current_positions,
                                                       changes)
                        /\ master_log' = Logged(master_log, opened, closed)
                        /\ poll' = [failed |-> ~ query_ok,
                                    cached |-> DOMAIN ticket_cache,
                                    polled |-> DOMAIN current_positions,
                                    out    |-> [i \in DOMAIN (opens \o closes) |->
                                                   receive((opens \o closes)[i]).value]]
    /\ UNCHANGED <<position_of, master_positions, next_master, master_state,
                   subscribed, received, slave_vars, translation, conn_vars,
                   launcher_vars, tilt_vars>>

(***************************************************************************)
(* nodes/slave.py, one iteration of the loop of run().                     *)
(***************************************************************************)
\* a plausible slip: the loop goes on to receive although initialize_mt5 failed
PausedNever(s, init_ok) == FALSE

\* lines 310-314: the terminal is down and initialize_mt5 fails: continue
Paused(s, init_ok) == terminal[s] = "down" /\ ~ init_ok

\* recv_string takes the oldest message off the socket
Take(q) == Tail(q)

SlaveLoop(s) ==
    /\ slave_state[s] = "running"
    /\ \E init_ok \in BOOLEAN :
          \* initialize_mt5 is called only when terminal_info() answers None
          /\ terminal[s] = "up" => init_ok
          /\ IF Paused(s, init_ok)
             THEN /\ retried' = [retried EXCEPT ![s] = TRUE]
                  /\ UNCHANGED <<terminal, bus_vars, slave_vars>>
             ELSE /\ terminal' = [terminal EXCEPT ![s] = IF init_ok THEN "up" ELSE @]
                  /\ UNCHANGED retried
                  /\ IF queue[s] = <<>>
                     THEN \* the receive times out
                          UNCHANGED <<bus_vars, slave_vars>>
                     ELSE LET signal == receive(Head(queue[s]).wire)
                          IN  /\ received' = [received EXCEPT
                                                 ![s] = Append(@, Head(queue[s]).id)]
                              /\ UNCHANGED published
                              /\ IF Truthy(signal)
                                 THEN process_signal(s, signal)
                                 ELSE UNCHANGED slave_vars
                              \* an exception leaves the loop: finally stop()
                              /\ IF slave_state'[s] = "crashed"
                                 THEN /\ queue' = [queue EXCEPT ![s] = <<>>]
                                      /\ subscribed' = subscribed \ {s}
                                 ELSE /\ queue' = [queue EXCEPT ![s] = Take(@)]
                                      /\ UNCHANGED subscribed
    \* the exception leaves run() and main() after stop(): traceback, exit code 1
    /\ node_end' = IF slave_state'[s] = "crashed"
                   THEN [node_end EXCEPT ![s] = Ended("raised", 1, TRUE)]
                   ELSE node_end
    /\ UNCHANGED <<position_of, master_vars, account_config, translation, launcher_vars, tilt_vars>>

\* the environment: the slave's terminal loses its connection
TerminalDrops(s) ==
    /\ slave_state[s] = "running"
    /\ terminal[s] = "up"
    /\ terminal' = [terminal EXCEPT ![s] = "down"]
    /\ retried' = [retried EXCEPT ![s] = FALSE]
    /\ UNCHANGED <<position_of, master_vars, bus_vars, slave_vars, translation,
                   node_end, launcher_vars, tilt_vars>>

(***************************************************************************)
(* The bus and one slave: a publisher that sends any Open or Close signal, *)
(* or a sender of malformed messages on the same topic.                    *)
(***************************************************************************)
\* the master has started with no position open
InitBus ==
    /\ translation = NoTranslation
    /\ position_of = SamplePositions
    /\ master_log = NoLog
    /\ master_positions = {}
    /\ next_master = 1
    /\ master_state = "running"
    /\ ticket_cache = EmptyDict
    /\ query_fails = 0
    /\ poll = [failed |-> FALSE, cached |-> {}, polled |-> {}, out |-> <<>>]
    /\ InitBusIdle
    /\ InitConn
    /\ InitTilt
    /\ InitNoLauncher
    /\ InitSlaves({ReplaySlave})

Signals ==
    {OpenMessage(PositionDict(t)) : t \in MasterTickets}
        \cup {CloseMessage(t, position_of[t].symbol) : t \in MasterTickets}

Publish ==
    /\ master_state = "running"
    /\ Len(published) < MaxPublish
    /\ \E message \in Signals : Broadcast(<<publish(message)>>)
    /\ UNCHANGED <<position_of, master_vars, subscribed, received, slave_vars,
                   translation, conn_vars, launcher_vars, tilt_vars>>

\* no separator; invalid JSON; JSON that is not an object (null, a number); an object
\* lacking the fields of its action
MalformedWires ==
    << <<"TRADE">>,
       <<"TRADE", InvalidJson>>,
       <<"TRADE", JsonText(None)>>,
       <<"TRADE", JsonText(PyInt(5))>>,
       <<"TRADE", JsonText(PyDict([action |-> "OPEN", ticket |-> 1]))>>,
       <<"TRADE", JsonText(PyDict([action |-> "CLOSE"]))>> >>

ForeignSend ==
    /\ Len(published) < MaxPublish
    /\ \E i \in DOMAIN MalformedWires : Broadcast(<<MalformedWires[i]>>)
    /\ UNCHANGED <<position_of, master_vars, subscribed, received, slave_vars,
                   translation, conn_vars, launcher_vars, tilt_vars>>

NextBus ==
    \/ Publish
    \/ \E s \in AllSlaves : BusConnect(s)
    \/ \E s \in AllSlaves : SlaveLoop(s)
    \/ \E s \in AllSlaves : TerminalDrops(s)

SpecBus == InitBus /\ [][NextBus]_vars

NextWire ==
    \/ ForeignSend
    \/ Publish
    \/ \E s \in AllSlaves : BusConnect(s)
    \/ \E s \in AllSlaves : SlaveLoop(s)

SpecWire == InitBus /\ [][NextWire]_vars

(***************************************************************************)
(* Properties of the bus and the slave's loop (SpecWire and SpecBus).      *)
(***************************************************************************)
IsMalformed(wire) == \E i \in DOMAIN MalformedWires : wire = MalformedWires[i]

\* C13: a slave that receives a malformed message drops it: it stays running and
\* changes neither the collection nor its positions
MalformedDropped ==
    [][\A s \in AllSlaves :
          (/\ received'[s] # received[s]
           /\ IsMalformed(Head(queue[s]).wire))
          => (/\ slave_state'[s] = "running"
              /\ trades' = trades
              /\ positions' = positions)]_vars

\* C14: the messages a slave has received are messages the publisher sent, in the
\* order it sent them
InPublishOrder ==
    \A s \in AllSlaves :
        /\ \A i \in DOMAIN received[s] : received[s][i] \in DOMAIN published
        /\ \A i, j \in DOMAIN received[s] : i < j => received[s][i] < received[s][j]

\* a connected slave has received two messages
ReceivedTwo ==
    \E s \in subscribed : Len(received[s]) >= 2

\* C15: a slave receives only messages sent while it was connected, and no message
\* twice
NoBacklogNoReplay ==
    \A s \in AllSlaves :
        /\ \A i \in DOMAIN received[s] : s \in published[received[s][i]].connected
        /\ \A i, j \in DOMAIN received[s] : i # j => received[s][i] # received[s][j]

\* a slave that missed a message sent before it connected has received a later one
LateJoiner ==
    \E s \in AllSlaves :
        \E i \in DOMAIN published, j \in DOMAIN received[s] :
            /\ s \notin published[i].connected
            /\ i < received[s][j]

\* C16: a slave never receives a message that was sent while its terminal was down
OutageSignalsLost ==
    \A s \in AllSlaves :
        \A i \in DOMAIN received[s] : s \notin published[received[s][i]].down

\* C17: while a slave's terminal stays down the slave receives nothing, makes no call
\* and changes no record; the iteration whose initialize_mt5 succeeds goes on to
\* receive and process the next message
PausedWhileDown ==
    [][\A s \in AllSlaves :
          /\ (terminal[s] = "down" /\ terminal'[s] = "down")
                => (/\ received'[s] = received[s]
                    /\ last'.seq # last.seq => last'.slave # s
                    /\ trades' # trades => last'.slave # s
                    /\ positions'[s] = positions[s])
          /\ (terminal[s] = "down" /\ terminal'[s] = "up" /\ queue[s] # <<>>)
                => (/\ received'[s] = Append(received[s], Head(queue[s]).id)
                    /\ last'.seq # last.seq
                    /\ last'.slave = s)]_vars

\* a slave whose initialize_mt5 failed at least once is up again and has received a
\* message that was sent during the outage
ResumedAfterRetry ==
    \E s \in AllSlaves :
        /\ terminal[s] = "up"
        /\ retried[s]
        /\ \E i \in DOMAIN received[s] : s \in published[received[s][i]].down

(***************************************************************************)
(* launcher.py: Launcher.start, one step per call and per loop iteration.  *)
(***************************************************************************)
AccountNames == {"FTMO_Master", "Apex_Slave_01", "FundedEngineer_Slave_01",
                 "MyForexFunds_Slave_01"}

AccountTypes == {"MASTER", "SLAVE"}

\* the accounts collections: one document per name (the index on name is unique)
Registries ==
    {{[name |-> n, type |-> f[n].type, enabled |-> f[n].enabled] : n \in AccountNames} :
        f \in [AccountNames -> [type : AccountTypes, enabled : BOOLEAN]]}

\* a plausible slip: the enabled flag is not part of the query
GetAll(coll) == coll

\* db/models.py: find({'enabled': True})
get_all_enabled(coll) == {a \in coll : a.enabled}

\* a plausible slip: the result of the ping is ignored
VerifyAlwaysTrue(up) == TRUE

\* the ping answers, or raises and the exception is caught
verify_database_connection(up) == up

Select(list, type) == SelectSeq(list, LAMBDA a : a.type = type)

\* a plausible slip: the first loop runs over every account
MastersUnfiltered(list) == list

masters(list) == Select(list, "MASTER")

slaves(list) == Select(list, "SLAVE")

Event(event, name, type) == [event |-> event, name |-> name, type |-> type]

\* sys.exit(1), or an exception that leaves start()
LauncherExits(code) ==
    /\ exit_code' = code
    /\ launcher_pc' = "exited"

\* lines 118-119
LauncherVerify ==
    /\ launcher_pc = "start"
    /\ launch_log' = Append(launch_log,
                            Event("ping", "", IF db_up THEN "ok" ELSE "failed"))
    /\ IF verify_database_connection(db_up)
       THEN launcher_pc' = "verified" /\ UNCHANGED exit_code
       ELSE LauncherExits(1)
    /\ UNCHANGED <<db_up, registry, accounts, cursor, processes, next_pid, children>>
    /\ UNCHANGED <<position_of, master_vars, bus_vars, slave_vars, translation, conn_vars, tilt_vars>>

\* lines 121-124: the list comes in the order the store returns it
LauncherLoad ==
    /\ launcher_pc = "verified"
    /\ IF ~ db_up
       THEN \* the query raises
            LauncherExits(1) /\ UNCHANGED <<accounts, launch_log>>
       ELSE \E list \in Orders(get_all_enabled(registry)) :
               /\ accounts' = list
               /\ launch_log' = Append(launch_log, Event("load", "", ""))
               /\ IF list = <<>>
                  THEN LauncherExits(1)
                  ELSE launcher_pc' = "masters" /\ UNCHANGED exit_code
    /\ UNCHANGED <<db_up, registry, cursor, processes, next_pid, children>>
    /\ UNCHANGED <<position_of, master_vars, bus_vars, slave_vars, translation, conn_vars, tilt_vars>>

\* spawn_process and the entry of self.processes; Popen may raise
Spawn(account) ==
    \E started \in BOOLEAN :
        IF started
        THEN /\ processes' = [n \in DOMAIN processes \cup {account.name} |->
                                 IF n = account.name THEN next_pid ELSE processes[n]]
             /\ children' = [p \in DOMAIN children \cup {next_pid} |->
                                IF p = next_pid THEN "running" ELSE children[p]]
             /\ next_pid' = next_pid + 1
             /\ cursor' = cursor + 1
             /\ launch_log' = Append(launch_log,
                                     Event("spawn", account.name, account.type))
             /\ UNCHANGED <<launcher_pc, exit_code>>
        ELSE /\ LauncherExits(1)
             /\ UNCHANGED <<processes, next_pid, cursor, launch_log, children>>

\* lines 133-135, one iteration
LauncherSpawnMaster ==
    /\ launcher_pc = "masters"
    /\ cursor < Len(masters(accounts))
    /\ Spawn(masters(accounts)[cursor + 1])
    /\ UNCHANGED <<db_up, registry, accounts>>
    /\ UNCHANGED <<position_of, master_vars, bus_vars, slave_vars, translation, conn_vars, tilt_vars>>

\* line 138: time.sleep(1) after the last master
LauncherGrace ==
    /\ launcher_pc = "masters"
    /\ cursor = Len(masters(accounts))
    /\ launch_log' = Append(launch_log, Event("sleep", "", ""))
    /\ launcher_pc' = "slaves"
    /\ cursor' = 0
    /\ UNCHANGED <<db_up, registry, accounts, processes, next_pid, exit_code, children>>
    /\ UNCHANGED <<position_of, master_vars, bus_vars, slave_vars, translation, conn_vars, tilt_vars>>

\* lines 141-143, one iteration
LauncherSpawnSlave ==
    /\ launcher_pc = "slaves"
    /\ cursor < Len(slaves(accounts))
    /\ Spawn(slaves(accounts)[cursor + 1])
    /\ UNCHANGED <<db_up, registry, accounts>>
    /\ UNCHANGED <<position_of, master_vars, bus_vars, slave_vars, translation, conn_vars, tilt_vars>>

\* lines 145-149: all processes started, the monitor loop begins
LauncherStarted ==
    /\ launcher_pc = "slaves"
    /\ cursor = Len(slaves(accounts))
    /\ launcher_pc' = "monitoring"
    /\ UNCHANGED <<db_up, registry, accounts, cursor, processes, next_pid, launch_log,
                   exit_code, children>>
    /\ UNCHANGED <<position_of, master_vars, bus_vars, slave_vars, translation, conn_vars, tilt_vars>>

\* the environment: the store goes down or comes back while the Launcher starts
StoreFlips ==
    /\ launcher_pc \in {"start", "verified"}
    /\ db_up' = ~ db_up
    /\ UNCHANGED <<registry, launcher_pc, accounts, cursor, processes, next_pid,
                   launch_log, exit_code, children>>
    /\ UNCHANGED <<position_of, master_vars, bus_vars, slave_vars, translation, conn_vars, tilt_vars>>

InitLauncher ==
    /\ translation = NoTranslation
    /\ position_of = SamplePositions
    /\ InitIdleMaster
    /\ InitBusIdle
    /\ InitConn
    /\ InitTilt
    /\ InitSlaves({})
    /\ db_up \in BOOLEAN
    /\ registry \in Registries
    /\ launcher_pc = "start"
    /\ accounts = <<>>
    /\ cursor = 0
    /\ processes = EmptyDict
    /\ next_pid = 1
    /\ launch_log = <<>>
    /\ exit_code = NoExit
    /\ children = EmptyDict

NextLauncher ==
    \/ LauncherVerify
    \/ LauncherLoad
    \/ LauncherSpawnMaster
    \/ LauncherGrace
    \/ LauncherSpawnSlave
    \/ LauncherStarted
    \/ StoreFlips

SpecLauncher == InitLauncher /\ [][NextLauncher]_vars

(***************************************************************************)
(* Properties of the Launcher (SpecLauncher).                              *)
(***************************************************************************)
Spawns(log) == {i \in DOMAIN log : log[i].event = "spawn"}

Enabled(type) == {a.name : a \in {b \in registry : b.enabled /\ b.type = type}}

\* C18: when the ping of the store fails the Launcher exits with code 1 at once: no
\* account is loaded and no process is spawned
StoreDownAborts ==
    (\E i \in DOMAIN launch_log :
        launch_log[i].event = "ping" /\ launch_log[i].type = "failed")
    => (/\ launcher_pc = "exited"
        /\ exit_code = 1
        /\ accounts = <<>>
        /\ processes = EmptyDict
        /\ Len(launch_log) = 1)

\* the store was down at the start of a Launcher that had enabled accounts to spawn
StoreWasDown ==
    /\ launch_log = <<Event("ping", "", "failed")>>
    /\ exit_code = 1
    /\ Enabled("MASTER") # {}
    /\ Enabled("SLAVE") # {}

\* C19: before the first SLAVE process is spawned the Launcher has slept, and before
\* that sleep it has spawned the process of every enabled MASTER account; no MASTER
\* process is spawned after the sleep
MastersBeforeSlaves ==
    \A i \in Spawns(launch_log) :
        launch_log[i].type = "SLAVE"
        => \E g \in 1..(i - 1) :
              /\ launch_log[g].event = "sleep"
              /\ \A j \in Spawns(launch_log) : launch_log[j].type = "MASTER" => j < g
              /\ \A m \in Enabled("MASTER") :
                    \E j \in Spawns(launch_log) : j < g /\ launch_log[j].name = m

\* two masters, the sleep, then a slave
SlaveAfterTwoMasters ==
    \E i, j, g, k \in DOMAIN launch_log :
        /\ i < j /\ j < g /\ g < k
        /\ launch_log[i].event = "spawn" /\ launch_log[i].type = "MASTER"
        /\ launch_log[j].event = "spawn" /\ launch_log[j].type = "MASTER"
        /\ launch_log[g].event = "sleep"
        /\ launch_log[k].event = "spawn" /\ launch_log[k].type = "SLAVE"

\* C20: when start() has spawned everything, self.processes has one entry per enabled
\* account, under its name, each a process of its own spawned once; and no process
\* is ever spawned for an account that is not enabled
SupervisedSet ==
    /\ launcher_pc = "monitoring"
          => /\ DOMAIN processes = Enabled("MASTER") \cup Enabled("SLAVE")
             /\ \A n \in DOMAIN processes :
                   Cardinality({i \in Spawns(launch_log) : launch_log[i].name = n}) = 1
             /\ \A n, m \in DOMAIN processes : n # m => processes[n] # processes[m]
    /\ \A i \in Spawns(launch_log) :
          launch_log[i].name \in Enabled("MASTER") \cup Enabled("SLAVE")

\* start() has finished with a master and a slave supervised and an account left out
SpawnedAllEnabled ==
    /\ launcher_pc = "monitoring"
    /\ Enabled("MASTER") # {} /\ Enabled("SLAVE") # {}
    /\ \E a \in registry : ~ a.enabled

(***************************************************************************)
(* launcher.py: Launcher.monitor, Launcher.stop and the signal handler of  *)
(* main, with the children exiting on their own.                           *)
(***************************************************************************)
\* the names of self.processes whose process.poll() answers None
Alive(procs, ch) == {n \in DOMAIN procs : ch[procs[n]] = "running"}

\* the warnings of one pass of monitor, in the order of the loop: self.processes keeps
\* the order of insertion, which is the order of the process ids
RECURSIVE ExitWarnings(_, _)
ExitWarnings(procs, names) ==
    IF names = {} THEN <<>>
    ELSE LET n == CHOOSE m \in names : \A k \in names : procs[m] <= procs[k]
         IN  <<Event("exit", n, "")>> \o ExitWarnings(procs, names \ {n})

\* a plausible slip: the entry of an exited process is kept
MonitorKeepsExited(procs, ch) == procs

\* lines 155-163, one pass of the for loop: del self.processes[name] for every
\* process that has exited
monitor(procs, ch) == [n \in Alive(procs, ch) |-> procs[n]]

\* a plausible slip: no kill() after the wait has timed out
StopWithoutKill(procs, ch, stubborn) ==
    [p \in DOMAIN ch |->
        IF p \in {procs[n] : n \in DOMAIN procs} /\ ch[p] = "running" /\ p \notin stubborn
        THEN "terminated" ELSE ch[p]]

\* lines 202-210: terminate() every process of self.processes and wait for it up to
\* five seconds; kill() the ones still running then (stubborn). A process that has
\* exited already is left as it is
stop(procs, ch, stubborn) ==
    [p \in DOMAIN ch |->
        IF p \in {procs[n] : n \in DOMAIN procs} /\ ch[p] = "running"
        THEN IF p \in stubborn THEN "killed" ELSE "terminated"
        ELSE ch[p]]

\* the environment: a child process ends on its own
ChildExits(p) ==
    /\ launcher_pc \notin {"off", "exited"}
    /\ p \in DOMAIN children
    /\ children[p] = "running"
    /\ children' = [children EXCEPT ![p] = "exited"]
    /\ UNCHANGED <<db_up, registry, launcher_pc, accounts, cursor, processes, next_pid,
                   launch_log, exit_code>>
    /\ UNCHANGED <<position_of, master_vars, bus_vars, slave_vars, translation, conn_vars, tilt_vars>>

\* lines 153-172: one iteration of the monitor loop in which some process has exited;
\* nothing is spawned
LauncherMonitor ==
    /\ launcher_pc = "monitoring"
    /\ Alive(processes, children) # DOMAIN processes
    /\ processes' = monitor(processes, children)
    /\ launch_log' = launch_log \o ExitWarnings(processes,
                                     DOMAIN processes \ Alive(processes, children))
    /\ UNCHANGED <<db_up, registry, launcher_pc, accounts, cursor, next_pid, exit_code,
                   children>>
    /\ UNCHANGED <<position_of, master_vars, bus_vars, slave_vars, translation, conn_vars, tilt_vars>>

\* lines 221-223: SIGINT or SIGTERM runs signal_handler, wherever start() or monitor()
\* is: launcher.stop(), self.processes.clear(), sys.exit(0)
LauncherSignal ==
    /\ launcher_pc \notin {"off", "exited"}
    /\ \E stubborn \in SUBSET {processes[n] : n \in Alive(processes, children)} :
          children' = stop(processes, children, stubborn)
    /\ processes' = EmptyDict
    /\ LauncherExits(0)
    /\ UNCHANGED <<db_up, registry, accounts, cursor, next_pid, launch_log>>
    /\ UNCHANGED <<position_of, master_vars, bus_vars, slave_vars, translation, conn_vars, tilt_vars>>

NextSupervise ==
    \/ LauncherVerify
    \/ LauncherLoad
    \/ LauncherSpawnMaster
    \/ LauncherGrace
    \/ LauncherSpawnSlave
    \/ LauncherStarted
    \/ \E p \in DOMAIN children : ChildExits(p)
    \/ LauncherMonitor
    \/ LauncherSignal

SpecSupervise == InitLauncher /\ [][NextSupervise]_vars

StopLeavesNoChild ==
    [][(exit_code = NoExit /\ exit_code' = 0)
          => /\ launcher_pc' = "exited"
             /\ processes' = EmptyDict
             /\ \A n \in DOMAIN processes :
                   /\ children'[processes[n]] # "running"
                   /\ children[processes[n]] = "running"
                         => children'[processes[n]] \in {"terminated", "killed"}
                   /\ children[processes[n]] # "running"
                         => children'[processes[n]] = children[processes[n]]]_vars

\* the Launcher was stopped by a signal: one child ended on terminate(), one had to be
\* killed, one had exited before
StoppedWithStraggler ==
    /\ launcher_pc = "exited"
    /\ exit_code = 0
    /\ processes = EmptyDict
    /\ \E p, q, r \in DOMAIN children :
          /\ children[p] = "terminated"
          /\ children[q] = "killed"
          /\ children[r] = "exited"

(***************************************************************************)
(* The master, the bus and one slave.                                      *)
(***************************************************************************)
Init ==
    /\ translation = NoTranslation
    /\ position_of = SamplePositions
    /\ InitIdleMaster
    /\ InitBusIdle
    /\ InitConn
    /\ InitTilt
    /\ InitNoLauncher
    /\ InitSlaves({ReplaySlave})

Next ==
    \/ MasterOpens
    \/ MasterCloses
    \/ MasterStart
    \/ MasterPoll
    \/ \E s \in AllSlaves : BusConnect(s)
    \/ \E s \in AllSlaves : SlaveLoop(s)
    \/ \E s \in AllSlaves : SlavePositionGone(s)

Spec == Init /\ [][Next]_vars

(***************************************************************************)
(* The master on its own, with no subscriber.                              *)
(***************************************************************************)
InitMaster ==
    /\ translation = NoTranslation
    /\ position_of \in [MasterTickets -> PositionData]
    /\ InitIdleMaster
    /\ InitBusIdle
    /\ InitConn
    /\ InitTilt
    /\ InitNoLauncher
    /\ InitSlaves({})

NextMaster ==
    \/ MasterOpens
    \/ MasterCloses
    \/ MasterStart
    \/ MasterPoll

SpecMaster == InitMaster /\ [][NextMaster]_vars

Count(seq, action, ticket) ==
    Cardinality({i \in DOMAIN seq : seq[i].action = action /\ seq[i].ticket = ticket})

\* C2: a poll cycle with cached tickets A and polled tickets B publishes exactly one
\* Open for each ticket of B \ A, exactly one Close for each ticket of A \ B, and
\* nothing else
DiffCorrectness ==
    LET A == poll.cached
        B == poll.polled
    IN  /\ \A t \in MasterTickets :
              /\ Count(poll.out, "OPEN", t) = (IF t \in B \ A THEN 1 ELSE 0)
              /\ Count(poll.out, "CLOSE", t) = (IF t \in A \ B THEN 1 ELSE 0)
        /\ Len(poll.out) = Cardinality(B \ A) + Cardinality(A \ B)
        /\ \A i \in DOMAIN poll.out :
              poll.out[i].action = "OPEN" => poll.out[i] = OpenMessage(PositionDict(poll.out[i].ticket))

\* a poll has seen one position gone, one new and one unchanged or another changed
PollPublishedBoth ==
    /\ ~ poll.failed
    /\ poll.cached \ poll.polled # {}
    /\ poll.polled \ poll.cached # {}
    /\ Len(poll.out) = 2

\* C3: a poll whose position query fails publishes nothing and leaves the ticket
\* cache as it was
QueryFailureSkipsPoll ==
    poll.failed => (poll.out = <<>> /\ DOMAIN ticket_cache = poll.cached)

\* C29: no Open is ever published for a ticket that was open on the master account
\* when the Master Node started
StartupNeverOpened == master_log.startup \cap master_log.opened = {}

\* C30: every Open a poll publishes is for a ticket that is not in the cache and whose
\* last published signal is not an Open; every Close is for a ticket that is in the
\* cache, put there by the Open published last for it or, no signal published for it
\* yet, by the load at startup; and a poll publishes one signal per ticket at most
SignalsAlternate ==
    [][published' # published =>
          \A i \in DOMAIN poll'.out :
              LET m == poll'.out[i]
              IN  /\ m.action = "OPEN"
                        => /\ master_log.last[m.ticket] # "OPEN"
                           /\ m.ticket \notin DOMAIN ticket_cache
                  /\ m.action = "CLOSE"
                        => /\ m.ticket \in DOMAIN ticket_cache
                           /\ \/ master_log.last[m.ticket] = "OPEN"
                              \/ /\ master_log.last[m.ticket] = "none"
                                 /\ m.ticket \in master_log.loaded
                  /\ \A j \in DOMAIN poll'.out :
                        j # i => poll'.out[j].ticket # m.ticket]_vars

\* the Close of a ticket loaded at startup and the Open and then the Close of a
\* ticket opened later have been published
ClosedBothKinds ==
    \E t, u \in MasterTickets :
        /\ master_log.last[t] = "CLOSE" /\ t \in master_log.loaded
        /\ t \notin master_log.opened
        /\ master_log.last[u] = "CLOSE" /\ u \in master_log.opened
        /\ u \notin master_log.startup

(***************************************************************************)
(* Properties of the master, the bus and the slave together (Spec).        *)
(***************************************************************************)
\* C10: once the slave has executed the Open of a ticket it holds exactly one record
\* for the ticket, OPEN; once it has executed the Close, exactly one, CLOSED
MirrorLifecycle ==
    /\ (last.op = "open" /\ last.out = "done")
          => /\ Cardinality(RecordsOf(trades, last.ticket, last.slave)) = 1
             /\ Cardinality(Matching(trades, last.ticket, last.slave, "OPEN")) = 1
    /\ (last.op = "close" /\ last.out = "done")
          => /\ Cardinality(RecordsOf(trades, last.ticket, last.slave)) = 1
             /\ Cardinality(Matching(trades, last.ticket, last.slave, "CLOSED")) = 1

(***************************************************************************)
(* The life of the node processes: main() of nodes/master.py and of        *)
(* nodes/slave.py from the start of the process to its end.                *)
(***************************************************************************)
\* the exit status of a process ended by terminate(): -SIGTERM where there are
\* signals, 1 from TerminateProcess on Windows
TerminatedCodes == {-15, 1}

\* nodes/slave.py main(): SlaveNode.__init__ raises ValueError when the account
\* record is missing (uncaught: exit code 1); run() returns when initialize_mt5
\* fails, and main() returns after it
SlaveStart(s) ==
    /\ slave_state[s] = "off"
    /\ \E account_found, init_ok \in BOOLEAN :
          IF ~ account_found
          THEN /\ slave_state' = [slave_state EXCEPT ![s] = "exited"]
               /\ node_end' = [node_end EXCEPT ![s] = Ended("no_account", 1, FALSE)]
          ELSE IF ~ init_ok
          THEN /\ slave_state' = [slave_state EXCEPT ![s] = "exited"]
               /\ node_end' = [node_end EXCEPT ![s] = Ended("init_failed", 0, FALSE)]
          ELSE /\ slave_state' = [slave_state EXCEPT ![s] = "running"]
               /\ UNCHANGED node_end
    /\ UNCHANGED <<position_of, master_vars, bus_vars, account_config, positions,
                   next_ticket, trades, last, translation, terminal, retried,
                   launcher_vars, tilt_vars>>

\* SIGINT: KeyboardInterrupt is raised in the loop of run(), caught, and finally
\* stop() closes the socket and calls mt5.shutdown(); main() returns
SlaveInterrupted(s) ==
    /\ slave_state[s] = "running"
    /\ slave_state' = [slave_state EXCEPT ![s] = "stopped"]
    /\ subscribed' = subscribed \ {s}
    /\ queue' = [queue EXCEPT ![s] = <<>>]
    /\ node_end' = [node_end EXCEPT ![s] = Ended("interrupted", 0, TRUE)]
    /\ UNCHANGED <<position_of, master_vars, published, received, account_config,
                   positions, next_ticket, trades, last, translation, terminal, retried,
                   launcher_vars, tilt_vars>>

\* process.terminate() of Launcher.stop: the node installs no handler for it, so the
\* process ends where it is; neither except nor finally runs
SlaveTerminated(s) ==
    /\ slave_state[s] = "running"
    /\ slave_state' = [slave_state EXCEPT ![s] = "killed"]
    /\ subscribed' = subscribed \ {s}
    /\ queue' = [queue EXCEPT ![s] = <<>>]
    /\ \E code \in TerminatedCodes :
          node_end' = [node_end EXCEPT ![s] = Ended("terminated", code, FALSE)]
    /\ UNCHANGED <<position_of, master_vars, published, received, account_config,
                   positions, next_ticket, trades, last, translation, terminal, retried,
                   launcher_vars, tilt_vars>>

\* nodes/master.py, lines 175-178: KeyboardInterrupt, finally stop()
MasterInterrupted ==
    /\ master_state = "running"
    /\ master_state' = "stopped"
    /\ node_end' = [node_end EXCEPT ![MasterName] = Ended("interrupted", 0, TRUE)]
    /\ UNCHANGED <<position_of, master_positions, next_master, ticket_cache, query_fails,
                   poll, master_log, bus_vars, slave_vars, translation, terminal, retried,
                   launcher_vars, tilt_vars>>

\* process.terminate() of Launcher.stop on the master
MasterTerminated ==
    /\ master_state = "running"
    /\ master_state' = "killed"
    /\ \E code \in TerminatedCodes :
          node_end' = [node_end EXCEPT ![MasterName] = Ended("terminated", code, FALSE)]
    /\ UNCHANGED <<position_of, master_positions, next_master, ticket_cache, query_fails,
                   poll, master_log, bus_vars, slave_vars, translation, terminal, retried,
                   launcher_vars, tilt_vars>>

InitNodes ==
    /\ translation = NoTranslation
    /\ position_of = SamplePositions
    /\ InitIdleMaster
    /\ InitBusIdle
    /\ InitConn
    /\ InitTilt
    /\ InitNoLauncher
    /\ InitSlaves({})

\* the master and one slave
NextNodes ==
    \/ MasterStart
    \/ SlaveStart(ReplaySlave)
    \/ \E s \in AllSlaves : BusConnect(s)
    \/ Publish
    \/ \E s \in AllSlaves : SlaveLoop(s)
    \/ MasterInterrupted
    \/ MasterTerminated
    \/ \E s \in AllSlaves : SlaveInterrupted(s)
    \/ \E s \in AllSlaves : SlaveTerminated(s)

SpecNodes == InitNodes /\ [][NextNodes]_vars

(***************************************************************************)
(* Properties of the node processes (SpecNodes).                           *)
(***************************************************************************)
\* C23: a node process that ends on a normal shutdown ends with code 0; one that ends
\* because the broker connection could not be initialized or the account record is
\* missing ends with a code other than 0
ExitCodes ==
    \A n \in Nodes :
        /\ node_end[n].why = "interrupted" => node_end[n].code = 0
        /\ node_end[n].why \in {"init_failed", "no_account"} => node_end[n].code # 0

\* C24: a node process ended by a termination signal has closed its Bus socket and
\* released its broker connection before it ended
ReleasedBeforeEnd ==
    \A n \in Nodes :
        node_end[n].why \in {"interrupted", "terminated"} => node_end[n].released

(***************************************************************************)
(* Two slaves replaying the same signals in any interleaving, on one       *)
(* trades collection.                                                      *)
(***************************************************************************)
\* both slaves run; the broker of each has handed out all its tickets but the last
InitSlaves2 ==
    /\ translation = NoTranslation
    /\ position_of = SamplePositions
    /\ InitIdleMaster
    /\ InitBusIdle
    /\ InitConn
    /\ InitTilt
    /\ InitNoLauncher
    /\ slave_state = [s \in AllSlaves |-> "running"]
    /\ account_config = Accounts
    /\ positions = [s \in AllSlaves |-> {}]
    /\ next_ticket = [s \in AllSlaves |-> MaxSlaveTicket]
    /\ trades = <<>>
    /\ last = NoCall

NextSlaves2 ==
    \/ \E s \in AllSlaves : ReplayOpen(s)
    \/ \E s \in AllSlaves : ReplayClose(s)

SpecSlaves2 == InitSlaves2 /\ [][NextSlaves2]_vars

\* the records of one slave, in the order of the collection
OwnRecords(coll, slave_name) == SelectSeq(coll, LAMBDA r : r.slave_name = slave_name)

\* C25: a call of one slave changes no record and no position of another slave; what
\* its lookup answers and what the call does to the slave's own records are what the
\* same call would answer and do on the slave's own records alone
SlaveIsolation ==
    [][Called =>
          LET s   == last'.slave
              t   == last'.ticket
              own == OwnRecords(trades, s)
          IN  /\ \A o \in AllSlaves \ {s} :
                    /\ OwnRecords(trades', o) = OwnRecords(trades, o)
                    /\ positions'[o] = positions[o]
              /\ last'.out = "no_mapping" => get_slave_ticket(own, t, s) = NoTicket
              /\ (last'.op = "close" /\ last'.out \in {"gone", "query_failed", "done",
                                                      "rejected", "no_result", "crash"})
                    => /\ get_slave_ticket(own, t, s) # NoTicket
                       /\ get_slave_ticket(own, t, s) = get_slave_ticket(trades, t, s)
              /\ OwnRecords(trades', s) =
                    IF last'.op = "open" /\ last'.ret # NoTicket
                    THEN Append(own, trades'[Len(trades')])
                    ELSE IF last'.op = "close"
                            /\ last'.out \in {"gone", "query_failed", "done"}
                    THEN close_trade(own, t, s)
                    ELSE own
              /\ (last'.op = "open" /\ last'.ret # NoTicket)
                    => trades'[Len(trades')].slave_name = s]_vars

\* both slaves mirrored the same master ticket, the second to open has closed its
\* record and the record of the first is still OPEN
ClosedOwnRecordOnly ==
    /\ last.op = "close" /\ last.out = "done"
    /\ Len(trades) = 2
    /\ trades[1].master_ticket = last.ticket /\ trades[2].master_ticket = last.ticket
    /\ trades[1].slave_name # last.slave /\ trades[1].status = "OPEN"
    /\ trades[2].slave_name = last.slave /\ trades[2].status = "CLOSED"

(***************************************************************************)
(* bot/risk_manager.py: TiltProtection, with a clock of whole hours.       *)
(***************************************************************************)
\* bot/config.py, STRATEGY_CONFIG
max_consecutive_losses == 3
tilt_pause_hours == 4

\* _trigger_pause: paused_until = now + pause_hours
trigger_pause(t, now) == [t EXCEPT !.paused_until = now + tilt_pause_hours]

record_trade_result(t, is_win, now) ==
    IF is_win THEN [t EXCEPT !.consecutive_losses = 0]
    ELSE LET counted == [t EXCEPT !.consecutive_losses = @ + 1]
         IN  IF counted.consecutive_losses >= max_consecutive_losses
             THEN trigger_pause(counted, now)
             ELSE counted

\* a plausible slip: the pause ends only after its last instant
IsTradingAllowedLate(t, now) ==
    IF t.paused_until = NoPause THEN [result |-> TRUE, tilt |-> t]
    ELSE IF now > t.paused_until
    THEN [result |-> TRUE,
          tilt |-> [consecutive_losses |-> 0, paused_until |-> NoPause]]
    ELSE [result |-> FALSE, tilt |-> t]

\* what the call returns and the state it leaves
is_trading_allowed(t, now) ==
    IF t.paused_until = NoPause THEN [result |-> TRUE, tilt |-> t]
    ELSE IF now >= t.paused_until
    THEN [result |-> TRUE,
          tilt |-> [consecutive_losses |-> 0, paused_until |-> NoPause]]
    ELSE [result |-> FALSE, tilt |-> t]

\* the ledger of what was recorded: a win clears the losses; a loss that is the third
\* in a row or a later one begins the pause at the hour it is recorded
LedgerRecord(l, is_win, now) ==
    IF is_win THEN [l EXCEPT !.losses = 0]
    ELSE [losses    |-> l.losses + 1,
          paused_at |-> IF l.losses + 1 >= 3 THEN now ELSE l.paused_at]

\* the pause of the ledger is over once tilt_pause_hours have passed
LedgerPaused(l, now) == l.paused_at # NoPause /\ now < l.paused_at + tilt_pause_hours

LedgerAsked(l, now) ==
    IF l.paused_at # NoPause /\ ~ LedgerPaused(l, now)
    THEN [losses |-> 0, paused_at |-> NoPause]
    ELSE l

TiltRecord ==
    /\ \E is_win \in BOOLEAN :
          /\ ~ is_win => tilt.consecutive_losses < MaxLosses
          /\ tilt' = record_trade_result(tilt, is_win, clock)
          /\ tilt_ledger' = LedgerRecord(tilt_ledger, is_win, clock)
          /\ tilt_last' = [op |-> "record", is_win |-> is_win, result |-> TRUE,
                           at |-> clock, until |-> tilt.paused_until,
                           seq |-> 1 - tilt_last.seq]
    /\ UNCHANGED <<position_of, master_vars, bus_vars, slave_vars, translation, conn_vars,
                   launcher_vars, clock>>

TiltAsk ==
    /\ LET answer == is_trading_allowed(tilt, clock)
       IN  /\ tilt' = answer.tilt
           /\ tilt_last' = [op |-> "allowed", is_win |-> FALSE, result |-> answer.result,
                            at |-> clock, until |-> tilt.paused_until,
                            seq |-> 1 - tilt_last.seq]
    /\ tilt_ledger' = LedgerAsked(tilt_ledger, clock)
    /\ UNCHANGED <<position_of, master_vars, bus_vars, slave_vars, translation, conn_vars,
                   launcher_vars, clock>>

\* an hour passes
TiltTick ==
    /\ clock < MaxClock
    /\ clock' = clock + 1
    /\ UNCHANGED <<position_of, master_vars, bus_vars, slave_vars, translation, conn_vars,
                   launcher_vars, tilt, tilt_last, tilt_ledger>>

InitTiltOnly ==
    /\ translation = NoTranslation
    /\ position_of = SamplePositions
    /\ InitIdleMaster
    /\ InitBusIdle
    /\ InitConn
    /\ InitTilt
    /\ InitNoLauncher
    /\ InitSlaves({})

NextTilt ==
    \/ TiltRecord
    \/ TiltAsk
    \/ TiltTick

SpecTilt == InitTiltOnly /\ [][NextTilt]_vars

\* C26: is_trading_allowed returns false exactly while the pause that three losses in
\* a row began is running (the pause runs tilt_pause_hours from the last loss
\* recorded as third or later in a row); asked after it, the call returns true and
\* leaves no pause and a counter of 0; a recorded win leaves a counter of 0; and the
\* counter is the number of losses recorded since the last win or end of a pause
TiltPause ==
    [][tilt_last'.seq # tilt_last.seq =>
          /\ tilt_last'.op = "allowed"
                => /\ tilt_last'.result = ~ LedgerPaused(tilt_ledger, clock)
                   /\ tilt_last'.result => tilt'.paused_until = NoPause
                   /\ (tilt_last'.result /\ tilt_ledger.paused_at # NoPause)
                         => tilt'.consecutive_losses = 0
                   /\ ~ tilt_last'.result => tilt' = tilt
          /\ (tilt_last'.op = "record" /\ tilt_last'.is_win)
                => tilt'.consecutive_losses = 0
          /\ tilt'.consecutive_losses = tilt_ledger'.losses]_vars

\* a pause that three losses in a row began is over at the very hour of the call:
\* is_trading_allowed returned true and reset the pause and the counter
PauseServed ==
    /\ tilt_last.op = "allowed"
    /\ tilt_last.result
    /\ tilt_last.until = tilt_last.at
    /\ tilt = [consecutive_losses |-> 0, paused_until |-> NoPause]

(***************************************************************************)
(* A slave that is started again after it has stopped.                     *)
(***************************************************************************)
\* nodes/slave.py main(): a new process of the same account, by hand (the Launcher
\* restarts nothing); the store and the broker are as the old process left them
SlaveRestart(s) ==
    /\ slave_state[s] = "crashed"
    /\ slave_state' = [slave_state EXCEPT ![s] = "running"]
    /\ UNCHANGED <<position_of, master_vars, bus_vars, account_config, positions,
                   next_ticket, trades, last, translation, conn_vars,
                   launcher_vars, tilt_vars>>

\* one running slave whose broker has two tickets left to hand out
InitRestart ==
    /\ translation = NoTranslation
    /\ position_of = SamplePositions
    /\ InitIdleMaster
    /\ InitBusIdle
    /\ InitConn
    /\ InitTilt
    /\ InitNoLauncher
    /\ slave_state = [s \in AllSlaves |-> IF s = ReplaySlave THEN "running" ELSE "off"]
    /\ account_config = Accounts
    /\ positions = [s \in AllSlaves |-> {}]
    /\ next_ticket = [s \in AllSlaves |-> MaxSlaveTicket - 1]
    /\ trades = <<>>
    /\ last = NoCall

NextRestart ==
    \/ \E s \in AllSlaves : ReplayOpen(s)
    \/ \E s \in AllSlaves : ReplayClose(s)
    \/ \E s \in AllSlaves : SlaveRestart(s)

SpecRestart == InitRestart /\ [][NextRestart]_vars

\* the positions on the slave's broker that mirror the master ticket (order comment
\* Copy:<ticket>) and that no record of the slave points to
Untracked(coll, held, s, master_ticket) ==
    {p \in held[s] : /\ p.comment = master_ticket
                     /\ \A i \in 1..Len(coll) :
                           ~ (coll[i].slave_name = s /\ coll[i].slave_ticket = p.ticket)}

\* C28: an execute_open that stops after the accepted order and before create_mapping
\* leaves the new position on the broker with no record; an execute_close for its
\* master ticket (the store answering, the slave holding no OPEN record of the
\* ticket) then finds no mapping, submits no order and leaves position and
\* collection as they are
UntrackedStaysOpen ==
    [][Called =>
          LET s == last'.slave
              t == last'.ticket
          IN  /\ (last'.op = "open" /\ last'.out = "store_failed")
                    => /\ trades' = trades
                       /\ slave_state'[s] = "crashed"
                       /\ \E p \in positions'[s] \ positions[s] :
                             p \in Untracked(trades', positions', s, t)
              /\ (/\ last'.op = "close" /\ last'.out # "store_failed"
                  /\ Untracked(trades, positions, s, t) # {}
                  /\ Matching(trades, t, s, "OPEN") = {})
                    => /\ last'.out = "no_mapping"
                       /\ ~ last'.order
                       /\ trades' = trades
                       /\ positions' = positions]_vars

\* the slave, started again, has dropped the Close of a master ticket whose mirrored
\* position is on its broker without a record, after an earlier mirror of the same
\* ticket was opened and closed with its record
UntrackedCloseDropped ==
    /\ last.op = "close" /\ last.out = "no_mapping"
    /\ slave_state[last.slave] = "running"
    /\ Untracked(trades, positions, last.slave, last.ticket) # {}
    /\ \E i \in 1..Len(trades) :
          /\ trades[i].master_ticket = last.ticket
          /\ trades[i].slave_name = last.slave
          /\ trades[i].status = "CLOSED"

(***************************************************************************)
(* The refused closing order (SpecRestart).                                *)
(***************************************************************************)
\* the outcomes of execute_close in which order_send was called
CloseOrdered == {"done", "rejected", "no_result"}

\* C27: a closing order the broker refuses or does not answer leaves the collection
\* and the position as they were, the record OPEN; the next call for the same ticket
\* finds the mapping again and, when it meets the position and a quote, submits the
\* closing order again
RejectedCloseRetried ==
    [][(Called /\ last'.op = "close")
       => /\ last'.out \in {"rejected", "no_result"}
                => /\ last'.order
                   /\ trades' = trades
                   /\ positions' = positions
                   /\ Matching(trades', last'.ticket, last'.slave, "OPEN") # {}
          /\ (/\ last.op = "close" /\ last.out \in {"rejected", "no_result"}
              /\ last'.slave = last.slave /\ last'.ticket = last.ticket)
                => /\ last'.out # "no_mapping"
                   /\ last'.out \in CloseOrdered => last'.order
                   /\ last'.out \notin CloseOrdered
                         => last'.out \in {"store_failed", "gone", "query_failed",
                                           "crash"}]_vars

\* the broker has refused a closing order: the record is still OPEN and the position
\* still on the broker
CloseRefused ==
    /\ last.op = "close" /\ last.out = "rejected" /\ last.order
    /\ \E i \in Matching(trades, last.ticket, last.slave, "OPEN") :
          \E p \in positions[last.slave] : p.ticket = trades[i].slave_ticket

====
